---- MODULE Spec2Model ----
(***************************************************************************)
(* Contact-form Lambda (src/index.mjs): the handler, the slot-based rate   *)
(* limiter (checkRateLimit / consume) and the two collaborators it talks   *)
(* to, the DynamoDB table with a TTL attribute and SES.                    *)
(*                                                                         *)
(* Strings that the code inspects or builds (field values, IP addresses,   *)
(* partition keys) are sequences of one-character strings.  Time is the    *)
(* wall clock in seconds, as Math.floor(Date.now() / 1000) reads it: one    *)
(* clock for all invocations, which never runs backward.  An await takes   *)
(* any amount of time: the code sets no timeout on ddb.send or ses.send.   *)
(* The table deletes an item at some moment after its ttl has passed.      *)
(***************************************************************************)
EXTENDS Integers, Sequences, FiniteSets, TLC

\* ------------------------------------------------------------------ bounds
MaxRequests == 2
MaxLimit == 2
MaxTicks == 4

\* ------------------------------------------------------- program constants
WindowSeconds == 3600
TtlSeconds == 3700

Requests == 1..MaxRequests

\* The instants the wall clock visits, in order: in every hour its first
\* second, the first second at which a key written at the start of the previous
\* hour is past its ttl, and its last second.
Offsets == <<0, TtlSeconds - WindowSeconds + 1, WindowSeconds - 1>>
Instant(k) == (k \div Len(Offsets)) * WindowSeconds + Offsets[(k % Len(Offsets)) + 1]
Instants == {Instant(k) : k \in 0..MaxTicks}
LastInstant == Instant(MaxTicks)
NextInstant(t) == CHOOSE u \in Instants : u > t /\ \A v \in Instants : v > t => u <= v

\* ------------------------------------------------------------------ strings
Blank == << >>
Spaces == <<" ">>
Text == <<"a">>
Padded == <<" ", "a", " ">>
IpA == <<"1">>
DefaultIp == <<"0", ".", "0", ".", "0", ".", "0">>

\* String.prototype.trim
RECURSIVE TrimLeft(_)
TrimLeft(s) == IF s # << >> /\ Head(s) = " " THEN TrimLeft(Tail(s)) ELSE s
RECURSIVE TrimRight(_)
TrimRight(s) ==
    IF s # << >> /\ s[Len(s)] = " " THEN TrimRight(SubSeq(s, 1, Len(s) - 1)) ELSE s
NoTrim(s) == s
Trim(s) == TrimRight(TrimLeft(s))

\* A number in a template literal: its decimal digits
Digit(d) == <<"0", "1", "2", "3", "4", "5", "6", "7", "8", "9">>[d + 1]
RECURSIVE Dec(_)
Dec(n) == IF n < 10 THEN <<Digit(n)>> ELSE Dec(n \div 10) \o <<Digit(n % 10)>>

\* `ip#${ip}#hour#${hour}#slot#${i}`
KeyWithoutHour(ip, hour, i) ==
    <<"i", "p", "#">> \o ip \o <<"#", "s", "l", "o", "t", "#">> \o Dec(i)
KeyWithoutSlot(ip, hour, i) ==
    <<"i", "p", "#">> \o ip \o <<"#", "h", "o", "u", "r", "#">> \o Dec(hour)
KeyWithoutIp(ip, hour, i) ==
    <<"i", "p", "#", "#", "h", "o", "u", "r", "#">> \o Dec(hour)
        \o <<"#", "s", "l", "o", "t", "#">> \o Dec(i)
Key(ip, hour, i) ==
    <<"i", "p", "#">> \o ip \o <<"#", "h", "o", "u", "r", "#">> \o Dec(hour)
        \o <<"#", "s", "l", "o", "t", "#">> \o Dec(i)

\* ------------------------------------------------------------------- events
FieldNames == {"name", "email", "message", "company"}
FieldValues == {Blank, Text}
NoFields == [f \in {} |-> Blank]
ValidFields == [name |-> Text, email |-> Text, message |-> Text, company |-> Blank]

\* event.body: absent, text that JSON.parse rejects, the JSON text null, or a
\* JSON object
RawBodies ==
    {[kind |-> k, fields |-> NoFields] : k \in {"absent", "malformed", "null"}}
        \cup {[kind |-> "json", fields |-> b] : b \in [FieldNames -> FieldValues]}
        \cup {[kind |-> "json", fields |-> [ValidFields EXCEPT ![f] = v]] :
                f \in FieldNames, v \in {Spaces, Padded}}
        \cup {[kind |-> "json", fields |-> [f \in FieldNames \ {g} |-> ValidFields[f]]] :
                g \in FieldNames}
ValidBody == [kind |-> "json", fields |-> ValidFields]

\* HTTP API v2 events carry requestContext.http, REST API events carry
\* httpMethod and requestContext.identity; "" and << >> stand for a missing one.
NoEvent ==
    [v2method |-> "", httpMethod |-> "", v2ip |-> Blank, restIp |-> Blank,
     body |-> [kind |-> "absent", fields |-> NoFields]]
CoreEvents ==
    {[v2method |-> "POST", httpMethod |-> "", v2ip |-> IpA, restIp |-> Blank,
      body |-> ValidBody],
     [v2method |-> "", httpMethod |-> "POST", v2ip |-> Blank, restIp |-> IpA,
      body |-> ValidBody],
     [v2method |-> "", httpMethod |-> "POST", v2ip |-> Blank, restIp |-> Blank,
      body |-> ValidBody]}
Events ==
    {[v2method |-> "POST", httpMethod |-> "", v2ip |-> IpA, restIp |-> Blank, body |-> b] :
        b \in RawBodies}
        \cup {[v2method |-> "", httpMethod |-> m, v2ip |-> Blank, restIp |-> ip,
               body |-> ValidBody] : m \in {"POST", "OPTIONS"}, ip \in {IpA, Blank}}
        \cup {[v2method |-> "OPTIONS", httpMethod |-> "", v2ip |-> IpA, restIp |-> Blank,
               body |-> b] : b \in {ValidBody, [kind |-> "malformed", fields |-> NoFields]}}

\* event.requestContext?.http?.method || event.httpMethod
MethodV2Only(e) == e.v2method
Method(e) == IF e.v2method # "" THEN e.v2method ELSE e.httpMethod

\* event.requestContext?.http?.sourceIp || event.requestContext?.identity?.sourceIp || "0.0.0.0"
ipFromEvent(e) ==
    IF e.v2ip # Blank THEN e.v2ip ELSE IF e.restIp # Blank THEN e.restIp ELSE DefaultIp

\* JSON.parse(event.body || "{}") throws a SyntaxError, or returns null and
\* body.company throws a TypeError
ParseThrows(e) == e.body.kind \in {"malformed", "null"}
ParsedBody(e) == IF e.body.kind = "json" THEN e.body.fields ELSE NoFields

\* String(body.f || "").trim()
Field(body, f) == Trim(IF f \in DOMAIN body THEN body[f] ELSE Blank)

\* if (String(body.company || "").trim())
IsBotWrongField(body) == Field(body, "website") # Blank
IsBot(body) == Field(body, "company") # Blank

\* if (!name || !email || !message)
MissingFields(body) ==
    \/ Field(body, "name") = Blank
    \/ Field(body, "email") = Blank
    \/ Field(body, "message") = Blank

\* -------------------------------------------------------------------- state
VARIABLES
    clock,       \* Date.now() / 1000, floored
    store,       \* the DynamoDB table: items [pk, ttl]
    reclaimed,   \* history: partition keys the table's TTL sweep has deleted
    req,         \* the handler invocations
    LIMIT,       \* Number(process.env.IP_LIMIT_PER_HOUR || 5)
    TABLE,       \* process.env.RATE_TABLE is set
    FROM_EMAIL   \* process.env.FROM_EMAIL is set

vars == <<clock, store, reclaimed, req, LIMIT, TABLE, FROM_EMAIL>>
env == <<LIMIT, TABLE, FROM_EMAIL>>

\* An invocation: pc is "idle" (not yet invoked), "received" (the event is
\* delivered), "put" (awaiting ddb.send), "ses" (awaiting ses.send) or "done".
\* ip, hour, i and ttl are the locals of checkRateLimit and consume (i is also
\* the number of conditional writes issued so far); created is the slot whose
\* key the invocation's write created (0: none), allowed the outcome of
\* checkRateLimit, sent that of ses.send, branch the return statement taken,
\* error the name of the error the last ddb.send failed with.
IdleRequest ==
    [pc |-> "idle", event |-> NoEvent, ip |-> Blank, hour |-> 0, i |-> 0, ttl |-> 0,
     created |-> 0, error |-> "none", allowed |-> "none", sent |-> "none", status |-> 0,
     branch |-> "none"]

Init ==
    /\ clock = 0
    /\ store = {}
    /\ reclaimed = {}
    /\ req = [r \in Requests |-> IdleRequest]
    /\ LIMIT \in 0..MaxLimit
    /\ TABLE \in BOOLEAN
    /\ FROM_EMAIL \in BOOLEAN

\* ------------------------------------------------------------ the DynamoDB table
\* ConditionExpression: "attribute_not_exists(pk)"
KeyNeverExists(pk) == FALSE
KeyExists(pk) == \E item \in store : item.pk = pk

\* The table deletes an item some time after the clock has passed its ttl.
Expire(item) ==
    /\ item \in store
    /\ item.ttl < clock
    /\ store' = store \ {item}
    /\ reclaimed' = reclaimed \cup {item.pk}
    /\ UNCHANGED <<clock, req, env>>

Tick ==
    /\ clock < LastInstant
    /\ clock' = NextInstant(clock)
    /\ UNCHANGED <<store, reclaimed, req, env>>

\* ------------------------------------------------------------------ handler
\* The return statements of the handler: the invocation ends with one response.
Respond(r, status, branch) ==
    req' = [req EXCEPT ![r].pc = "done", ![r].event = NoEvent, ![r].status = status,
                       ![r].branch = branch]

\* const ttl = now + ttlSeconds
TtlWithoutNow(now) == TtlSeconds
TtlInMilliseconds(now) == now * 1000 + TtlSeconds
Ttl(now) == now + TtlSeconds

\* if (!isAllowed) return 429
NeverRejects(isAllowed) == FALSE
Rejects(isAllowed) == ~isAllowed

\* for (let i = 1; i <= LIMIT; i++)
LoopStopsEarly(i) == i < LIMIT
LoopRunsOver(i) == i <= LIMIT + 1
LoopContinues(i) == i <= LIMIT

\* The Lambda runtime invokes the handler with an event.  Invocations are
\* numbered in the order of their events.
Receive(r, e) ==
    /\ req[r].pc = "idle"
    /\ \A q \in Requests : req[q].pc # "received"
    /\ \A q \in Requests : q < r => req[q].pc # "idle"
    /\ req' = [req EXCEPT ![r].pc = "received", ![r].event = e]
    /\ UNCHANGED <<clock, store, reclaimed, env>>

\* The same, while no other invocation is in flight.
ReceiveAlone(r, e) ==
    /\ \A q \in Requests : req[q].pc \in {"idle", "done"}
    /\ Receive(r, e)

\* The handler up to its first await: the preflight answer, the configuration
\* checks, JSON.parse, the honeypot, the validation, and the start of
\* checkRateLimit with the first call of consume up to ddb.send.
handler(r) ==
    LET e == req[r].event
        body == ParsedBody(e)
    IN  /\ req[r].pc = "received"
        /\ IF Method(e) = "OPTIONS" THEN Respond(r, 204, "options")
           ELSE IF ~TABLE \/ ~FROM_EMAIL THEN Respond(r, 500, "config")
           ELSE IF ParseThrows(e) THEN Respond(r, 500, "parse")
           ELSE IF IsBot(body) THEN Respond(r, 200, "bot")
           ELSE IF MissingFields(body) THEN Respond(r, 400, "missing")
           ELSE IF LoopContinues(1)
                THEN req' = [req EXCEPT ![r].pc = "put", ![r].event = NoEvent,
                                        ![r].branch = "valid",
                                        ![r].ip = ipFromEvent(e),
                                        ![r].hour = clock \div WindowSeconds,
                                        ![r].i = 1,
                                        ![r].ttl = Ttl(clock)]
                ELSE IF Rejects(FALSE)
                THEN req' = [req EXCEPT ![r].pc = "done", ![r].event = NoEvent,
                                        ![r].branch = "valid",
                                        ![r].ip = ipFromEvent(e),
                                        ![r].hour = clock \div WindowSeconds,
                                        ![r].allowed = "false",
                                        ![r].status = 429]
                ELSE req' = [req EXCEPT ![r].pc = "ses", ![r].event = NoEvent,
                                        ![r].branch = "valid",
                                        ![r].ip = ipFromEvent(e),
                                        ![r].hour = clock \div WindowSeconds,
                                        ![r].allowed = "false",
                                        ![r].sent = "pending"]
        /\ UNCHANGED <<clock, store, reclaimed, env>>

\* consume's try/catch: what it makes of the outcome of ddb.send
consumeSwallows(e) == IF e = "none" THEN "true" ELSE "false"
consumeInverted(e) ==
    IF e = "none" THEN "false"
    ELSE IF e = "ConditionalCheckFailedException" THEN "true"
    ELSE "throw"
consumeThrowsOnConflict(e) == IF e = "none" THEN "true" ELSE "throw"
consume(e) ==
    IF e = "none" THEN "true"
    ELSE IF e = "ConditionalCheckFailedException" THEN "false"
    ELSE "throw"

\* checkRateLimit and the handler after ddb.send has settled with outcome e:
\* true ends the loop and the handler goes on to ses.send; false moves to the
\* next slot, whose consume reads the clock again, or ends the loop with 429;
\* an exception reaches the handler's catch.
checkRateLimit(r, e, wrote) ==
    LET result == consume(e)
        made == IF wrote THEN req[r].i ELSE req[r].created
        after == [req[r] EXCEPT !.ttl = 0, !.created = made, !.error = e]
        returns(isAllowed) ==
            IF Rejects(isAllowed)
            THEN [after EXCEPT !.pc = "done", !.status = 429,
                               !.allowed = IF isAllowed THEN "true" ELSE "false"]
            ELSE [after EXCEPT !.pc = "ses", !.sent = "pending",
                               !.allowed = IF isAllowed THEN "true" ELSE "false"]
    IN  req' = [req EXCEPT ![r] =
            IF result = "true" THEN returns(TRUE)
            ELSE IF result = "false"
            THEN IF LoopContinues(req[r].i + 1)
                 THEN [after EXCEPT !.i = @ + 1, !.ttl = Ttl(clock)]
                 ELSE returns(FALSE)
            ELSE [after EXCEPT !.pc = "done", !.allowed = "error", !.status = 500]]

PendingKey(r) == Key(req[r].ip, req[r].hour, req[r].i)

\* ddb.send creates the item.
PutItemSucceeds(r) ==
    /\ req[r].pc = "put"
    /\ ~KeyExists(PendingKey(r))
    /\ store' = store \cup {[pk |-> PendingKey(r), ttl |-> req[r].ttl]}
    /\ checkRateLimit(r, "none", TRUE)
    /\ UNCHANGED <<clock, reclaimed, env>>

\* ddb.send finds the key and fails the condition.
PutItemRejected(r) ==
    /\ req[r].pc = "put"
    /\ KeyExists(PendingKey(r))
    /\ checkRateLimit(r, "ConditionalCheckFailedException", FALSE)
    /\ UNCHANGED <<clock, store, reclaimed, env>>

\* ddb.send fails with another error, before the table has applied the write
\* or after it (the response is lost).
PutItemFails(r, applied) ==
    /\ req[r].pc = "put"
    /\ LET wrote == applied /\ ~KeyExists(PendingKey(r))
       IN  /\ store' = IF wrote
                       THEN store \cup {[pk |-> PendingKey(r), ttl |-> req[r].ttl]}
                       ELSE store
           /\ checkRateLimit(r, "ServiceUnavailable", wrote)
    /\ UNCHANGED <<clock, reclaimed, env>>

\* ses.send resolves: the handler returns 200.
SendEmailSucceeds(r) ==
    /\ req[r].pc = "ses"
    /\ req' = [req EXCEPT ![r].pc = "done", ![r].sent = "ok", ![r].status = 200]
    /\ UNCHANGED <<clock, store, reclaimed, env>>

\* ses.send rejects: the handler's catch returns 500.
SendEmailFailsReleases(r) ==
    /\ req[r].pc = "ses"
    /\ req' = [req EXCEPT ![r].pc = "done", ![r].sent = "error", ![r].status = 500]
    /\ store' = {item \in store : item.pk # Key(req[r].ip, req[r].hour, req[r].created)}
    /\ UNCHANGED <<clock, reclaimed, env>>
SendEmailFails(r) ==
    /\ req[r].pc = "ses"
    /\ req' = [req EXCEPT ![r].pc = "done", ![r].sent = "error", ![r].status = 500]
    /\ UNCHANGED <<clock, store, reclaimed, env>>

\* Concurrent invocations with well-formed submissions
Next ==
    \/ Tick
    \/ \E item \in store : Expire(item)
    \/ \E r \in Requests, e \in CoreEvents : Receive(r, e)
    \/ \E r \in Requests : handler(r)
    \/ \E r \in Requests : PutItemSucceeds(r)
    \/ \E r \in Requests : PutItemRejected(r)
    \/ \E r \in Requests, applied \in BOOLEAN : PutItemFails(r, applied)
    \/ \E r \in Requests : SendEmailSucceeds(r)
    \/ \E r \in Requests : SendEmailFails(r)

Spec == Init /\ [][Next]_vars

\* Invocations with any event, one at a time
NextHandler ==
    \/ Tick
    \/ \E item \in store : Expire(item)
    \/ \E r \in Requests, e \in Events : ReceiveAlone(r, e)
    \/ \E r \in Requests : handler(r)
    \/ \E r \in Requests : PutItemSucceeds(r)
    \/ \E r \in Requests : PutItemRejected(r)
    \/ \E r \in Requests, applied \in BOOLEAN : PutItemFails(r, applied)
    \/ \E r \in Requests : SendEmailSucceeds(r)
    \/ \E r \in Requests : SendEmailFails(r)

SpecHandler == Init /\ [][NextHandler]_vars

\* ---------------------------------------------------------------- properties
Ips == {IpA, DefaultIp}
Windows == 0..(LastInstant \div WindowSeconds)

\* The checkRateLimit calls made for identity ip with computed window index w
Calls(ip, w) ==
    {r \in Requests : req[r].branch = "valid" /\ req[r].ip = ip /\ req[r].hour = w}
Granted(ip, w) == {r \in Calls(ip, w) : req[r].allowed = "true"}
Denied(ip, w) == {r \in Calls(ip, w) : req[r].allowed = "false"}
Decided(ip, w) == {r \in Calls(ip, w) : req[r].allowed # "none"}
NoStoreFault(ip, w) == \A r \in Calls(ip, w) : req[r].error # "ServiceUnavailable"
NoneReclaimed(ip, w) == \A i \in 1..LIMIT : Key(ip, w, i) \notin reclaimed
AllClaimed(ip, w) == \A i \in 1..LIMIT : \E item \in store : item.pk = Key(ip, w, i)
Current(w) == clock \div WindowSeconds = w

\* C1 as stated: for every identity and window the calls that returned true
\* never number more than LIMIT.  It fails: a call that computed its window
\* index and is still awaiting ddb.send when the keys of that window have been
\* reclaimed claims a slot again.
C1_AsStated == \A ip \in Ips, w \in Windows : Cardinality(Granted(ip, w)) <= LIMIT

\* C1: for every identity and window, under any interleaving of the conditional
\* writes, the calls that returned true number at most LIMIT as long as the
\* table has reclaimed no slot key of that identity and window.
C1_GrantsWithinLimit ==
    \A ip \in Ips, w \in Windows :
        NoneReclaimed(ip, w) => Cardinality(Granted(ip, w)) <= LIMIT

C1_Witness ==
    \E ip \in Ips, w \in Windows :
        /\ LIMIT >= 1
        /\ NoneReclaimed(ip, w)
        /\ Cardinality(Granted(ip, w)) = LIMIT
        /\ Denied(ip, w) # {}

\* C2 as stated: with no store fault, at most LIMIT calls for an identity and
\* window all return true, and of more than LIMIT calls exactly LIMIT return
\* true and the others false.  It fails for the same late call as C1.
C2_AsStated ==
    \A ip \in Ips, w \in Windows :
        NoStoreFault(ip, w) =>
            /\ Cardinality(Calls(ip, w)) <= LIMIT => Denied(ip, w) = {}
            /\ Cardinality(Decided(ip, w)) > LIMIT => Cardinality(Granted(ip, w)) = LIMIT
            /\ Denied(ip, w) # {} => Cardinality(Granted(ip, w)) = LIMIT

\* C2: with no store fault and no slot key of the identity and window
\* reclaimed, under any interleaving: when at most LIMIT calls are made none is
\* denied, when more than LIMIT calls have returned exactly LIMIT of them
\* returned true, and a call is denied only when LIMIT calls were granted.
C2_ExactlyLimitSucceed ==
    \A ip \in Ips, w \in Windows :
        (NoStoreFault(ip, w) /\ NoneReclaimed(ip, w)) =>
            /\ Cardinality(Calls(ip, w)) <= LIMIT => Denied(ip, w) = {}
            /\ Cardinality(Decided(ip, w)) > LIMIT => Cardinality(Granted(ip, w)) = LIMIT
            /\ Denied(ip, w) # {} => Cardinality(Granted(ip, w)) = LIMIT

C2_Witness ==
    \E ip \in Ips, w \in Windows :
        /\ LIMIT >= 1
        /\ NoStoreFault(ip, w) /\ NoneReclaimed(ip, w)
        /\ Cardinality(Calls(ip, w)) = LIMIT + 1
        /\ Decided(ip, w) = Calls(ip, w)
        /\ Cardinality(Granted(ip, w)) = LIMIT
        /\ Cardinality(Denied(ip, w)) = 1

\* C3: once all LIMIT slots of an identity and window are claimed, then for as
\* long as the clock stays in that window they stay claimed and no call for
\* that identity with that computed window index returns true.
C3_DenialIsIdempotent ==
    [][\A ip \in Ips, w \in Windows :
         (AllClaimed(ip, w) /\ (clock' \div WindowSeconds) = w) =>
            /\ \A i \in 1..LIMIT : \E item \in store' : item.pk = Key(ip, w, i)
            /\ \A r \in Requests :
                 (req'[r].branch = "valid" /\ req'[r].ip = ip /\ req'[r].hour = w
                    /\ req[r].allowed # "true") => req'[r].allowed # "true"]_vars

C3_Witness ==
    \E ip \in Ips, w \in Windows :
        /\ LIMIT >= 1
        /\ Current(w)
        /\ AllClaimed(ip, w)
        /\ \E r \in Denied(ip, w) : req[r].i = LIMIT /\ req[r].status = 429

\* C4: a call is denied only when every one of the LIMIT slots of its own
\* identity and window was claimed by a call for that same identity and
\* window; what is claimed in another window never denies it.
C4_WindowsIndependent ==
    \A r \in Requests :
        req[r].allowed = "false" =>
            \A i \in 1..LIMIT :
                \E q \in Calls(req[r].ip, req[r].hour) : req[q].created = i

\* Window w is exhausted, its keys are still in the table, and LIMIT calls of
\* window w + 1 have returned true.
C4_Witness ==
    \E ip \in Ips, w \in Windows :
        /\ LIMIT >= 1
        /\ w + 1 \in Windows
        /\ AllClaimed(ip, w)
        /\ Cardinality(Granted(ip, w)) = LIMIT
        /\ Cardinality(Granted(ip, w + 1)) = LIMIT
        /\ AllClaimed(ip, w + 1)

\* C5: when ddb.send fails with an error other than the failed condition, the
\* call neither allows nor denies: the invocation ends at once with status 500,
\* with no further slot attempted and no email dispatch, and does nothing more.
C5_StoreFaultPropagates ==
    [][\A r \in Requests :
         /\ req'[r].error = "ServiceUnavailable" =>
                /\ req'[r].pc = "done"
                /\ req'[r].status = 500
                /\ req'[r].allowed = "error"
                /\ req'[r].sent = "none"
         /\ (req[r].error # "ServiceUnavailable" /\ req'[r].error = "ServiceUnavailable") =>
                req'[r].i = req[r].i
         /\ req[r].error = "ServiceUnavailable" => req'[r] = req[r]]_vars

\* The second conditional write of a call has failed with a service error.
C5_Witness ==
    \E r \in Requests :
        /\ req[r].error = "ServiceUnavailable"
        /\ req[r].i = 2
        /\ req[r].status = 500
        /\ req[r].sent = "none"

\* What the properties of the handler say of an event, read off the event itself
Raw(e, f) == IF e.body.kind = "json" /\ f \in DOMAIN e.body.fields THEN e.body.fields[f] ELSE Blank
OnlySpaces(str) == \A k \in 1..Len(str) : str[k] = " "
IsOptions(e) == e.v2method = "OPTIONS" \/ (e.v2method = "" /\ e.httpMethod = "OPTIONS")
Configured == TABLE /\ FROM_EMAIL
Malformed(e) == e.body.kind \in {"malformed", "null"}
\* A submission that reaches the honeypot check
Submission(e) == ~IsOptions(e) /\ Configured /\ ~Malformed(e)
\* Invocation r takes the handler's first step
Handles(r) == req[r].pc = "received" /\ req'[r].pc # "received"
\* The step answers with status s and has written nothing and sent nothing
AnswersAtOnce(r, s) ==
    /\ req'[r].pc = "done"
    /\ req'[r].status = s
    /\ req'[r].i = 0
    /\ req'[r].created = 0
    /\ req'[r].sent = "none"
    /\ store' = store

\* C6 as stated: a submission whose company field is non-empty is answered 200
\* with no store write and no email dispatch.  It fails for a company field of
\* white space only, which the handler trims to the empty string.
C6_AsStated ==
    [][\A r \in Requests :
         (Handles(r) /\ Submission(req[r].event) /\ Raw(req[r].event, "company") # Blank)
            => AnswersAtOnce(r, 200)]_vars

\* C6: a submission whose company field is non-empty after trimming is answered
\* 200 by the handler's first step, before checkRateLimit: no conditional write
\* is issued, no key is created and no email is dispatched.
C6_HoneypotShortCircuits ==
    [][\A r \in Requests :
         (Handles(r) /\ Submission(req[r].event)
            /\ ~OnlySpaces(Raw(req[r].event, "company")))
            => AnswersAtOnce(r, 200)]_vars

\* A submission has been answered 200 by the honeypot branch.
C6_Witness ==
    \E r \in Requests :
        /\ req[r].branch = "bot"
        /\ req[r].status = 200
        /\ req[r].i = 0
        /\ req[r].sent = "none"

\* C7: a submission with an empty company field in which name, email or message
\* is empty after trimming is answered 400 by the handler's first step: no
\* conditional write is issued, no key is created and no email is dispatched.
C7_ValidationRejects ==
    [][\A r \in Requests :
         (Handles(r) /\ Submission(req[r].event)
            /\ OnlySpaces(Raw(req[r].event, "company"))
            /\ \E f \in {"name", "email", "message"} : OnlySpaces(Raw(req[r].event, f)))
            => AnswersAtOnce(r, 400)]_vars

C7_Witness ==
    \E r \in Requests :
        /\ req[r].branch = "missing"
        /\ req[r].status = 400
        /\ req[r].i = 0
        /\ req[r].sent = "none"

\* Calls and dispatches free of faults
NoFault(ip, w) ==
    \A r \in Calls(ip, w) : req[r].error # "ServiceUnavailable" /\ req[r].sent # "error"
Answered(ip, w, s) == {r \in Calls(ip, w) : req[r].status = s}

\* C8: while the clock is in hour w and neither the table nor SES has failed,
\* the valid requests of one source IP whose window is w are answered 200 or
\* 429 only, at most LIMIT of them 200, and 429 only when LIMIT of them have
\* been granted: the first LIMIT get 200 and every later one 429.
C8_LimitThenTooMany ==
    \A ip \in Ips, w \in Windows :
        (Current(w) /\ NoFault(ip, w)) =>
            /\ \A r \in Calls(ip, w) : req[r].status \in {0, 200, 429}
            /\ \A r \in Answered(ip, w, 200) : req[r].allowed = "true"
            /\ Cardinality(Granted(ip, w)) <= LIMIT
            /\ Answered(ip, w, 429) # {} => Cardinality(Granted(ip, w)) = LIMIT

C8_Witness ==
    \E ip \in Ips, w \in Windows :
        /\ LIMIT >= 1
        /\ Current(w) /\ NoFault(ip, w)
        /\ Cardinality(Answered(ip, w, 200)) = LIMIT
        /\ Cardinality(Answered(ip, w, 429)) = 1

\* What C9 says of the step that answers invocation r with status s, apart
\* from status 500
AnswerIsJustified(r, s) ==
    LET e == req[r].event
        first == req[r].pc = "received"
    IN  /\ req'[r].pc = "done"
        /\ s \in {204, 200, 400, 429, 500}
        /\ s = 204 => first /\ IsOptions(e)
        /\ s = 200 =>
              \/ req[r].pc = "ses" /\ req'[r].sent = "ok"
              \/ first /\ ~OnlySpaces(Raw(e, "company"))
        /\ s = 400 =>
              first /\ \E f \in {"name", "email", "message"} : OnlySpaces(Raw(e, f))
        /\ s = 429 =>
              /\ req'[r].allowed = "false"
              /\ \/ first /\ LIMIT = 0
                 \/ /\ req[r].pc = "put"
                    /\ req[r].i = LIMIT
                    /\ \E item \in store : item.pk = Key(req[r].ip, req[r].hour, LIMIT)
InfrastructureFault(r) ==
    \/ req[r].pc = "received" /\ ~Configured
    \/ req[r].pc = "put" /\ req'[r].error = "ServiceUnavailable"
    \/ req[r].pc = "ses" /\ req'[r].sent = "error"
OneResponse(r) ==
    /\ req'[r].pc = "done" <=> req'[r].status # 0
    /\ req[r].status # 0 => req'[r] = req[r]
    /\ (Handles(r) /\ IsOptions(req[r].event)) => AnswersAtOnce(r, 204)

\* C9 as stated: status 500 is returned only on a configuration or
\* infrastructure fault.  It fails for a body that JSON.parse rejects, and for
\* the body null: the exception reaches the handler's catch.
C9_AsStated ==
    [][\A r \in Requests :
         /\ OneResponse(r)
         /\ (req[r].status = 0 /\ req'[r].status # 0) =>
                /\ AnswerIsJustified(r, req'[r].status)
                /\ req'[r].status = 500 => InfrastructureFault(r)]_vars

\* C9: every invocation ends with exactly one response, which is final; an
\* OPTIONS request is answered 204 at once with no store write and no dispatch;
\* otherwise the status is 200 only after ses.send succeeded or for a filled
\* honeypot, 400 only for a missing field, 429 only when checkRateLimit
\* returned false having found every slot taken, and 500 only on a missing
\* configuration value, a failed ddb.send or ses.send, or a body that is not
\* the JSON text of an object.
C9_StatusCodes ==
    [][\A r \in Requests :
         /\ OneResponse(r)
         /\ (req[r].status = 0 /\ req'[r].status # 0) =>
                /\ AnswerIsJustified(r, req'[r].status)
                /\ req'[r].status = 500 =>
                      \/ InfrastructureFault(r)
                      \/ req[r].pc = "received" /\ Malformed(req[r].event)]_vars

\* One invocation was answered 204 and another 500 for its body.
C9_Witness ==
    /\ \E r \in Requests : req[r].status = 204 /\ req[r].branch = "options"
    /\ \E r \in Requests : req[r].status = 500 /\ req[r].branch = "parse"

Dispatched(ip, w) == {r \in Calls(ip, w) : req[r].sent # "none"}
DispatchFollowsClaim ==
    /\ \A r \in Requests :
          req[r].sent # "none" =>
             /\ req[r].allowed = "true"
             /\ req[r].created = req[r].i
             /\ req[r].i >= 1
    /\ \A r \in Requests :
          req[r].allowed = "false" =>
             /\ req[r].pc = "done"
             /\ req[r].status = 429
             /\ req[r].sent = "none"

\* C10 as stated: the emails dispatched for an identity and window never number
\* more than LIMIT.  It fails with C1: the late call that is granted after the
\* keys of its window were reclaimed dispatches its email.
C10_AsStated ==
    /\ DispatchFollowsClaim
    /\ \A ip \in Ips, w \in Windows : Cardinality(Dispatched(ip, w)) <= LIMIT

\* C10: ses.send is called only by an invocation whose checkRateLimit returned
\* true after creating a slot key, a denied invocation is answered 429 with no
\* dispatch, and the dispatches for an identity and window number at most
\* LIMIT as long as the table has reclaimed no slot key of theirs.
C10_DispatchOnlyAfterClaim ==
    /\ DispatchFollowsClaim
    /\ \A ip \in Ips, w \in Windows :
          NoneReclaimed(ip, w) => Cardinality(Dispatched(ip, w)) <= LIMIT

C10_Witness ==
    \E ip \in Ips, w \in Windows :
        /\ LIMIT >= 1
        /\ NoneReclaimed(ip, w)
        /\ Cardinality({r \in Calls(ip, w) : req[r].sent = "ok"}) = LIMIT
        /\ \E r \in Denied(ip, w) : req[r].status = 429

\* ------------------------------------------------------------- the TTL sweep
\* The table's TTL sweep keeps running while an item is past its ttl.
SpecExpiry == Spec /\ WF_vars(\E item \in store : Expire(item))

\* C11: an item whose ttl the clock has passed is eventually absent from the
\* table (again and again the table holds no item past its ttl, and the clock
\* never returns below a ttl it has passed); an item leaves the table only by the TTL sweep, past its ttl and in
\* a step no invocation takes part in; the ttl of a stored item is at most
\* TtlSeconds ahead of the clock; and a conditional write issued for a
\* reclaimed key that is absent is not refused with the failed condition.
C11_ExpiredKeysVanish ==
    /\ []<>(\A item \in store : item.ttl >= clock)
    /\ [][clock' >= clock]_vars
    /\ [][/\ \A item \in store \ store' : item.ttl < clock /\ req' = req
          /\ \A item \in store' : item.ttl <= clock' + TtlSeconds
          /\ \A r \in Requests :
               (req[r].pc = "put" /\ req'[r] # req[r] /\ PendingKey(r) \in reclaimed
                 /\ ~\E item \in store : item.pk = PendingKey(r))
                  => req'[r].error # "ConditionalCheckFailedException"]_vars

\* A key that the sweep reclaimed is in the table again, created by a call
\* that has returned true.
C11_Witness ==
    \E r \in Requests :
        /\ req[r].allowed = "true"
        /\ Key(req[r].ip, req[r].hour, req[r].created) \in reclaimed
        /\ \E item \in store : item.pk = Key(req[r].ip, req[r].hour, req[r].created)

\* C12: no step of an invocation changes or removes an item: the table holds at
\* most one item for a partition key, an item that enters it is new under its
\* key, and an item stays as it is, with the ttl it was written with, until
\* the TTL sweep deletes it in a step of its own.
C12_KeysNeverUpdated ==
    [][/\ \A item \in store :
            \/ item \in store'
            \/ req' = req /\ item.ttl < clock /\ ~\E other \in store' : other.pk = item.pk
       /\ \A item \in store' \ store : ~\E old \in store : old.pk = item.pk
       /\ \A a \in store', b \in store' : a.pk = b.pk => a = b]_vars

\* A key is stored with the ttl of its creation after a second call found it
\* taken and was denied, and after the creating invocation ended with 500.
C12_Witness ==
    \E r \in Requests, q \in Requests :
        /\ req[r].sent = "error"
        /\ req[r].status = 500
        /\ req[q].allowed = "false"
        /\ req[q].ip = req[r].ip /\ req[q].hour = req[r].hour
        /\ \E item \in store : item.pk = Key(req[r].ip, req[r].hour, req[r].created)

\* The items stored for identity ip and window w
SlotKeys(ip, w) == {item \in store : \E i \in 1..LIMIT : item.pk = Key(ip, w, i)}
CreatedOne(r) == req[r].created = req[r].i /\ req[r].i >= 1
ExactlyOnce ==
    /\ \A r \in Requests : req[r].allowed = "true" => CreatedOne(r)
    /\ \A r \in Requests : req[r].allowed = "false" => req[r].created = 0

ClockBack ==
    /\ \E t \in Instants : t < clock /\ clock' = t
    /\ UNCHANGED <<store, reclaimed, req, env>>

NextSkew == Next \/ ClockBack
SpecSkew == Init /\ [][NextSkew]_vars

WindowEnd(w) == (w + 1) * WindowSeconds
WindowOf(item) == CHOOSE w \in Windows : \E ip \in Ips, i \in 1..MaxLimit : item.pk = Key(ip, w, i)

\* C14: with a clock that can move backward between checkRateLimit's reading
\* of now and the store write, the key is written under the window index of
\* the first reading, the expiry written with a slot key is not earlier than
\* the end of the key's window, and no slot key is reclaimed while its window
\* is still open.
C14_AsStated ==
    /\ [](\A r \in Requests : req[r].pc = "put" => req[r].ttl >= WindowEnd(req[r].hour))
    /\ [](\A item \in store : item.ttl >= WindowEnd(WindowOf(item)))
    /\ [][/\ \A r \in Requests :
                (req[r].pc = "put" /\ req'[r].pc = "put") => req'[r].hour = req[r].hour
          /\ \A item \in store' \ store :
                \E r \in Requests : item.pk = PendingKey(r) /\ item.ttl = req[r].ttl
          /\ \A item \in store \ store' : clock >= WindowEnd(WindowOf(item))]_vars

\* An invocation is about to write a later slot and the clock reads a time
\* before the window that invocation computed.
C14_Witness ==
    \E r \in Requests :
        /\ req[r].pc = "put" /\ req[r].i >= 2
        /\ clock < req[r].hour * WindowSeconds

\* ------------------------------------------------------------ the slot loop
\* C15: a call of checkRateLimit issues at most LIMIT conditional writes, for
\* the slots 1, 2, ... in ascending order, one more only after the failed
\* condition of the one before, and none after a write that succeeded or
\* raised; with LIMIT = 0 it issues none, writes nothing and returns false.
C15_BoundedAscendingWrites ==
    [][\A r \in Requests :
          /\ req'[r].i <= LIMIT
          /\ req'[r].pc = "put" => req'[r].i >= 1
          /\ req'[r].i # req[r].i =>
                /\ req'[r].i = req[r].i + 1
                /\ \/ req[r].pc = "received" /\ req[r].i = 0
                   \/ /\ req[r].pc = "put"
                      /\ req'[r].error = "ConditionalCheckFailedException"
                      /\ store' = store
          /\ (req[r].pc = "put" /\ req'[r] # req[r]
                /\ req'[r].error # "ConditionalCheckFailedException") =>
                /\ req'[r].pc # "put"
                /\ req'[r].i = req[r].i
          /\ (req[r].pc = "put" /\ req'[r].pc = "done" /\ req'[r].allowed = "false") =>
                req[r].i = LIMIT
          /\ LIMIT = 0 =>
                /\ store' = {}
                /\ req'[r].branch = "valid" =>
                      req'[r].pc = "done" /\ req'[r].allowed = "false"]_vars

\* A call has issued LIMIT = 2 writes, for slot 1, refused, and for slot 2,
\* which succeeded, and has stopped there.
C15_Witness ==
    /\ LIMIT = 2
    /\ \E r \in Requests :
          /\ req[r].pc = "done" /\ req[r].i = 2 /\ req[r].created = 2
          /\ req[r].allowed = "true" /\ req[r].error = "none"

\* C16: the failed condition of a conditional write is never surfaced: it only
\* moves the call to the next slot, or ends it with 429 after slot LIMIT; an
\* invocation with a valid submission whose ddb.send raised no other error and
\* whose ses.send did not fail ends with 200 or 429, never with 500.
C16_ContentionNotSurfaced ==
    /\ [](\A r \in Requests :
            (req[r].pc = "done" /\ req[r].branch = "valid"
               /\ req[r].error # "ServiceUnavailable" /\ req[r].sent # "error") =>
                  req[r].status \in {200, 429})
    /\ [][\A r \in Requests :
            (req[r].pc = "put" /\ req'[r] # req[r]
               /\ req'[r].error = "ConditionalCheckFailedException") =>
                  /\ store' = store
                  /\ \/ /\ req[r].i < LIMIT
                        /\ req'[r].pc = "put" /\ req'[r].i = req[r].i + 1
                        /\ req'[r].status = 0
                     \/ /\ req[r].i = LIMIT
                        /\ req'[r].pc = "done" /\ req'[r].status = 429]_vars

\* Two invocations raced for slot 1: the one whose write was refused went on
\* to slot 2 and was answered 200.
C16_Witness ==
    \E r \in Requests, q \in Requests :
        /\ req[q].created = 1
        /\ req[r].ip = req[q].ip /\ req[r].hour = req[q].hour
        /\ req[r].i = 2 /\ req[r].sent = "ok" /\ req[r].status = 200

\* ------------------------------------------------------------- isolation
\* Identities, window indices and slot numbers whose decimal digits and
\* separators could run into one another if the key were ambiguous
LikeKeys ==
    {IpA, DefaultIp, <<"1", "1">>, <<"1", "#">>,
     IpA \o <<"#", "h", "o", "u", "r", "#", "1">>,
     IpA \o <<"#", "h", "o", "u", "r", "#", "1", "#", "s", "l", "o", "t", "#", "1">>}
Triples == LikeKeys \X (0..11) \X (1..11)
KeyIsInjective ==
    \A a \in Triples, b \in Triples :
        Key(a[1], a[2], a[3]) = Key(b[1], b[2], b[3]) => a = b

\* The items of identity ip
KeysOf == [ip \in Ips |-> {Key(ip, w, i) : w \in Windows, i \in 1..MaxLimit}]
ItemsOf(ip) == {item \in store : item.pk \in KeysOf[ip]}

\* C17: distinct (identity, window, slot) triples have distinct keys, and the
\* calls of one identity neither read nor write the items of another: a step
\* of an invocation changes only the items of its own identity, a write is
\* refused only for an item of the caller's identity, and it succeeds
\* whenever the caller's identity has no item with that key.
C17_IdentitiesIsolated ==
    /\ [](KeyIsInjective)
    /\ [](\A a \in Ips, b \in Ips : a # b => ItemsOf(a) \cap ItemsOf(b) = {})
    /\ [][\A r \in Requests :
            req'[r] # req[r] =>
               /\ \A ip \in Ips \ {req'[r].ip} :
                     ItemsOf(ip)' = ItemsOf(ip)
               /\ (req[r].pc = "put"
                     /\ req'[r].error = "ConditionalCheckFailedException") =>
                        \E item \in ItemsOf(req[r].ip) :
                            item.pk = Key(req[r].ip, req[r].hour, req[r].i)
               /\ (req[r].pc = "put" /\ req'[r].created # req[r].created) =>
                     /\ ~\E item \in ItemsOf(req[r].ip) :
                            item.pk = Key(req[r].ip, req[r].hour, req[r].i)
                     /\ \E item \in ItemsOf(req[r].ip)' :
                            item.pk = Key(req[r].ip, req[r].hour, req[r].i)]_vars

\* With LIMIT = 1, two identities were each granted slot 1 of the same window:
\* the slot taken by the one did not count against the other.
C17_Witness ==
    /\ LIMIT = 1
    /\ \E r \in Requests, q \in Requests :
          /\ req[r].ip = IpA /\ req[q].ip = DefaultIp
          /\ req[r].hour = req[q].hour
          /\ req[r].allowed = "true" /\ req[q].allowed = "true"
          /\ ItemsOf(IpA) # {} /\ ItemsOf(DefaultIp) # {}

\* ------------------------------------------------------ the claimed slots
SlotKey == [ip \in Ips, w \in Windows, i \in 1..(MaxLimit + 1) |-> Key(ip, w, i)]
Claimed(ip, w) == {i \in 1..(MaxLimit + 1) : \E item \in store : item.pk = SlotKey[ip, w, i]}

\* C18: while no slot key of an identity and window has been reclaimed, the
\* claimed slot numbers of that identity and window are 1..k for some k with
\* 0 <= k <= LIMIT, under any interleaving; and slot i+1 is never created
\* while slot i is absent.
C18_ClaimedSlotsArePrefix ==
    /\ [](\A ip \in Ips, w \in Windows :
            NoneReclaimed(ip, w) =>
                \E k \in 0..LIMIT : Claimed(ip, w) = 1..k)
    /\ [][\A ip \in Ips, w \in Windows :
            (store' # store /\ NoneReclaimed(ip, w)) =>
                LET before == Claimed(ip, w)
                IN  \A i \in Claimed(ip, w)' \ before : i = 1 \/ i - 1 \in before]_vars

\* Slots 1 and 2 of an identity and window are claimed and none has been
\* reclaimed: slot 1 by a write whose response was lost, slot 2 by a call whose
\* write of slot 1 was refused.
C18_Witness ==
    \E ip \in Ips, w \in Windows :
        /\ NoneReclaimed(ip, w)
        /\ Claimed(ip, w) = {1, 2}
        /\ \E q \in Calls(ip, w) : req[q].created = 1 /\ req[q].error = "ServiceUnavailable"
        /\ \E r \in Calls(ip, w) : req[r].created = 2 /\ req[r].allowed = "true"

\* ------------------------------------------------------- a failed dispatch
FailedDispatch(ip, w) == {r \in Calls(ip, w) : req[r].sent = "error"}

\* C19: an invocation whose ses.send fails after its slot was claimed is
\* answered 500 and its slot key stays in the table: the step leaves the table
\* as it is, and while the clock is in the key's window the key is stored; so
\* with LIMIT such invocations of one identity in one window, all slots are
\* claimed and every other invocation of that identity that finishes within
\* that window, with no store fault, is answered 429.
C19_FailedDispatchKeepsSlot ==
    /\ [](\A r \in Requests :
            req[r].sent = "error" =>
                /\ req[r].pc = "done" /\ req[r].status = 500
                /\ req[r].allowed = "true" /\ req[r].created >= 1
                /\ Current(req[r].hour) =>
                      \E item \in store :
                          item.pk = Key(req[r].ip, req[r].hour, req[r].created))
    /\ [](\A ip \in Ips, w \in Windows :
            (LIMIT >= 1 /\ Current(w) /\ Cardinality(FailedDispatch(ip, w)) = LIMIT) =>
                /\ AllClaimed(ip, w)
                /\ \A q \in Calls(ip, w) \ FailedDispatch(ip, w) :
                      (req[q].pc = "done" /\ req[q].error # "ServiceUnavailable") =>
                          req[q].status = 429 /\ req[q].sent = "none")
    /\ [][\A r \in Requests :
            (req[r].sent # "error" /\ req'[r].sent = "error") =>
                /\ req[r].pc = "ses"
                /\ store' = store]_vars

\* With LIMIT = 1, the dispatch of an invocation failed and, in the same
\* window, the next invocation of that identity was answered 429.
C19_Witness ==
    \E ip \in Ips, w \in Windows :
        /\ LIMIT = 1 /\ Current(w)
        /\ Cardinality(FailedDispatch(ip, w)) = 1
        /\ \E q \in Calls(ip, w) \ FailedDispatch(ip, w) : req[q].status = 429

====
